---------------------------- MODULE Spec2Model ----------------------------
(***************************************************************************)
(* A model of src/src/bmp.rs: the BMP byte buffer (BMP.contents) and the   *)
(* operations that read and edit it.  The buffer is a sequence of bytes;   *)
(* Rust's 0-based index i is position i+1 of the sequence.  Every          *)
(* operation is an operator over the buffer that returns one of            *)
(*   Ok(v)     the Rust Ok(v)                                              *)
(*   Err(k)    the Rust Err(ErrorKind::k)                                  *)
(*   Panic     the call aborts (slice or index out of range, unwrap of     *)
(*             None, division by zero, arithmetic overflow in a debug      *)
(*             build)                                                      *)
(* Integer arithmetic keeps the width the source gives it.  An overflow    *)
(* panics in a debug build and wraps in a release build: the operators     *)
(* take the build as a parameter and the actions choose it.  A u32 is the  *)
(* pair <<high 16 bits, low 16 bits>>: u32_lt is its order and its "as     *)
(* u16" is the low half.                                                   *)
(***************************************************************************)
EXTENDS Integers, Sequences, FiniteSets, TLC

VARIABLES
  contents,   \* BMP.contents: the bytes of the file
  loaded,     \* contents as read from the file by new_from_file
  pc,         \* "idle" | "fill_loop" (inside fill_bucket's while) | "panicked"
  op,         \* the operation called last ("load" after construction)
  args,       \* its arguments; inside fill_bucket also its locals
  result,     \* what it returned
  before,     \* contents when the operation was called
  queue,      \* fill_bucket's queue
  visited,    \* fill_bucket's visited
  nops        \* number of calls made so far

vars == <<contents, loaded, pc, op, args, result, before, queue, visited, nops>>

(***************************************************************************)
(* Bounds of the model.                                                    *)
(***************************************************************************)
MaxWidth == 4
MaxHeight == 2
MaxOps == 1
MaxStrideWidth == 16
MaxSeqOps == 2
TallHeight24 == 5462
TallHeight32 == 4090

(***************************************************************************)
(* Results and options.                                                    *)
(***************************************************************************)
Ok(v) == [tag |-> "Ok", val |-> v]
Err(k) == [tag |-> "Err", kind |-> k]
Panic == [tag |-> "Panic"]

None == <<>>
Some(v) == <<v>>
is_some(o) == o # <<>>
unwrap(o) == o[1]

Builds == {"debug", "release"}

HEADER_OFFSET == 14

U16 == 65536

\* u32 values
u32(n) == <<n \div U16, n % U16>>
u32_lt(a, b) == a[1] < b[1] \/ (a[1] = b[1] /\ a[2] < b[2])
as_u16(a) == a[2]
\* the number a u32 below 2^31 stands for
u32_to_int(a) == a[1] * U16 + a[2]

Min(a, b) == IF a < b THEN a ELSE b
Max(a, b) == IF a > b THEN a ELSE b
Abs(a) == IF a < 0 THEN -a ELSE a

(***************************************************************************)
(* Utilities (bmp.rs 215-229): little-endian decoding of a slice of the    *)
(* buffer starting at 0-based offset off.                                  *)
(***************************************************************************)
byte_to_int(c, off) == c[off + 1]

two_bytes_to_int(c, off) == c[off + 1] + 256 * c[off + 2]

bytes_to_int(c, off) ==
  <<c[off + 3] + 256 * c[off + 4], c[off + 1] + 256 * c[off + 2]>>

two_bytes_to_signed_int(c, off) ==
  LET u == two_bytes_to_int(c, off)
  IN  IF u >= 32768 THEN u - 65536 ELSE u

bytes_to_signed_int(c, off) ==
  c[off + 1] + 256 * c[off + 2] + 65536 * c[off + 3]
  + 16777216 * (IF c[off + 4] >= 128 THEN c[off + 4] - 256 ELSE c[off + 4])

\* a slice contents[lo..hi] as the sequence of its bytes
slice(c, lo, hi) == [i \in 1..(hi - lo) |-> c[lo + i]]

\* HashMap compression_table of int_to_compression; a key outside it makes
\* .get(&int).unwrap() abort
compression_table ==
  [i \in 0..6 |->
     CASE i = 0 -> "BI_RGB"
       [] i = 1 -> "BI_RLE8"
       [] i = 2 -> "BI_RLE4"
       [] i = 3 -> "BI_BITFIELDS"
       [] i = 4 -> "BI_JPEG"
       [] i = 5 -> "BI_PNG"
       [] i = 6 -> "BI_ALPHABITFIELDS"]

int_to_compression_ok(int) == int[1] = 0 /\ int[2] \in DOMAIN compression_table

int_to_compression(int) == compression_table[int[2]]

(***************************************************************************)
(* File header (bmp.rs 325-341).  bfOffBits is read as 4 bytes and         *)
(* narrowed to u16.                                                        *)
(***************************************************************************)
get_header(c) ==
  IF Len(c) < 14 THEN Panic
  ELSE Ok([bfType      |-> slice(c, 0, 2),
           bfSize      |-> bytes_to_int(c, 2),
           bfReserved1 |-> slice(c, 6, 8),
           bfReserved2 |-> slice(c, 8, 10),
           bfOffBits   |-> as_u16(bytes_to_int(c, 10))])


(***************************************************************************)
(* DIB header (bmp.rs 350-484).  One struct DIBHEADER for the four shapes; *)
(* a field a shape does not have is None.                                  *)
(***************************************************************************)
no_info_fields ==
  [compression |-> None, sizeimage |-> None, XPelsPerMeter |-> None,
   YPelsPerMeter |-> None, ClrUsed |-> None, ClrImportant |-> None]

no_v4_fields ==
  [RedMask |-> None, GreenMask |-> None, BlueMask |-> None, AlphaMask |-> None,
   CSType |-> None, Endpoints |-> None, GammaRed |-> None, GammaGreen |-> None,
   GammaBlue |-> None]

no_v5_fields ==
  [Intent |-> None, ProfileData |-> None, ProfileSize |-> None, Reserved |-> None]

\* width, height, planes, bitcount of the 40-, 108- and 124-byte headers
long_fields(c, dib_size) ==
  [size     |-> as_u16(dib_size),
   width    |-> bytes_to_int(c, HEADER_OFFSET + 4),
   height   |-> bytes_to_signed_int(c, HEADER_OFFSET + 8),
   planes   |-> two_bytes_to_int(c, HEADER_OFFSET + 12),
   bitcount |-> two_bytes_to_int(c, HEADER_OFFSET + 14)]

info_fields(c) ==
  [compression   |-> Some(int_to_compression(bytes_to_int(c, HEADER_OFFSET + 16))),
   sizeimage     |-> Some(bytes_to_int(c, HEADER_OFFSET + 20)),
   XPelsPerMeter |-> Some(bytes_to_int(c, HEADER_OFFSET + 24)),
   YPelsPerMeter |-> Some(bytes_to_int(c, HEADER_OFFSET + 28)),
   ClrUsed       |-> Some(bytes_to_int(c, HEADER_OFFSET + 32)),
   ClrImportant  |-> Some(bytes_to_int(c, HEADER_OFFSET + 36))]

v4_fields(c) ==
  [RedMask    |-> Some(bytes_to_int(c, HEADER_OFFSET + 40)),
   GreenMask  |-> Some(bytes_to_int(c, HEADER_OFFSET + 44)),
   BlueMask   |-> Some(bytes_to_int(c, HEADER_OFFSET + 48)),
   AlphaMask  |-> Some(bytes_to_int(c, HEADER_OFFSET + 52)),
   CSType     |-> Some(slice(c, HEADER_OFFSET + 56, HEADER_OFFSET + 60)),
   Endpoints  |-> Some([i \in 1..3 |-> [j \in 1..3 |->
                     bytes_to_signed_int(c, HEADER_OFFSET + 60 + 12 * (i - 1) + 4 * (j - 1))]]),
   GammaRed   |-> Some(bytes_to_int(c, HEADER_OFFSET + 96)),
   GammaGreen |-> Some(bytes_to_int(c, HEADER_OFFSET + 100)),
   GammaBlue  |-> Some(bytes_to_int(c, HEADER_OFFSET + 104))]

v5_fields(c) ==
  [Intent      |-> Some(slice(c, HEADER_OFFSET + 108, HEADER_OFFSET + 112)),
   ProfileData |-> Some(as_u16(bytes_to_int(c, HEADER_OFFSET + 112))),
   ProfileSize |-> Some(as_u16(bytes_to_int(c, HEADER_OFFSET + 116))),
   Reserved    |-> Some(slice(c, HEADER_OFFSET + 120, HEADER_OFFSET + 124))]

\* a variant of the dispatch value: the size field narrowed to its low 16 bits
dib_size_low_word(c) == u32(two_bytes_to_int(c, HEADER_OFFSET))

\* the value the match of get_dib_header dispatches on
dib_size_of(c) == bytes_to_int(c, HEADER_OFFSET)

\* r1 @@ r2 @@ ... : the struct literal of one match arm
get_dib_header(c) ==
  IF Len(c) < HEADER_OFFSET + 4 THEN Panic
  ELSE
    LET dib_size == dib_size_of(c)
    IN  CASE dib_size = u32(12) ->
               IF Len(c) < HEADER_OFFSET + 12 THEN Panic
               ELSE Ok([size     |-> as_u16(dib_size),
                        width    |-> u32(two_bytes_to_int(c, HEADER_OFFSET + 4)),
                        height   |-> two_bytes_to_signed_int(c, HEADER_OFFSET + 6),
                        planes   |-> two_bytes_to_int(c, HEADER_OFFSET + 8),
                        bitcount |-> two_bytes_to_int(c, HEADER_OFFSET + 10)]
                       @@ no_info_fields @@ no_v4_fields @@ no_v5_fields)
          [] dib_size = u32(40) ->
               IF Len(c) < HEADER_OFFSET + 40 THEN Panic
               ELSE IF ~int_to_compression_ok(bytes_to_int(c, HEADER_OFFSET + 16)) THEN Panic
               ELSE Ok(long_fields(c, dib_size) @@ info_fields(c)
                       @@ no_v4_fields @@ no_v5_fields)
          [] dib_size = u32(108) ->
               IF Len(c) < HEADER_OFFSET + 108 THEN Panic
               ELSE IF ~int_to_compression_ok(bytes_to_int(c, HEADER_OFFSET + 16)) THEN Panic
               ELSE Ok(long_fields(c, dib_size) @@ info_fields(c)
                       @@ v4_fields(c) @@ no_v5_fields)
          [] dib_size = u32(124) ->
               IF Len(c) < HEADER_OFFSET + 124 THEN Panic
               ELSE IF ~int_to_compression_ok(bytes_to_int(c, HEADER_OFFSET + 16)) THEN Panic
               ELSE Ok(long_fields(c, dib_size) @@ info_fields(c)
                       @@ v4_fields(c) @@ v5_fields(c))
          [] OTHER -> Err("Unsupported")

(***************************************************************************)
(* Extra bit masks (bmp.rs 486-518).                                       *)
(***************************************************************************)
get_extra_bit_masks(c) ==
  LET dh == get_dib_header(c)
  IN  IF dh.tag # "Ok" THEN dh
      ELSE IF dh.val.size = 40 THEN
        LET TOTAL_OFFSET == 54
            compression == unwrap(dh.val.compression)
        IN  IF compression = "BI_BITFIELDS" THEN
              IF Len(c) < TOTAL_OFFSET + 12 THEN Panic
              ELSE Ok([red   |-> bytes_to_int(c, TOTAL_OFFSET),
                       green |-> bytes_to_int(c, TOTAL_OFFSET + 4),
                       blue  |-> bytes_to_int(c, TOTAL_OFFSET + 8)])
            ELSE IF compression = "BI_ALPHABITFIELDS" THEN
              IF Len(c) < TOTAL_OFFSET + 16 THEN Panic
              ELSE Ok([red   |-> bytes_to_int(c, TOTAL_OFFSET),
                       green |-> bytes_to_int(c, TOTAL_OFFSET + 4),
                       blue  |-> bytes_to_int(c, TOTAL_OFFSET + 8),
                       alpha |-> bytes_to_int(c, TOTAL_OFFSET + 12)])
            ELSE Err("DoesNotExist")
      ELSE Err("DoesNotExist")

(***************************************************************************)
(* Color table (bmp.rs 523-590).  offset and end are u16; end - offset     *)
(* underflows when the pixel data offset lies before the end of the        *)
(* header: a debug build aborts there, a release build wraps and then      *)
(* indexes past the end of any buffer shorter than 64 KiB.                 *)
(***************************************************************************)
\* a variant of the entries: 4 bytes each whatever the header
color_table_entries_of_quads(c, offset, end, width) ==
  IF end < offset THEN Panic
  ELSE
    LET n == (end - offset) \div 4
    IN  IF n > 0 /\ offset + 4 * n - 1 >= Len(c) THEN Panic
        ELSE Ok([kind |-> "RGBQUAD",
                 vec  |-> [i \in 1..n |-> slice(c, offset + 4 * (i - 1), offset + 4 * i)]])

color_table_entries(c, offset, end, width) ==
  IF end < offset THEN Panic
  ELSE
    LET n == (end - offset) \div width
    IN  IF n > 0 /\ offset + (n - 1) * width + (width - 1) >= Len(c) THEN Panic
        ELSE Ok([kind |-> IF width = 3 THEN "RGBTRIPLE" ELSE "RGBQUAD",
                 vec  |-> [i \in 1..n |-> slice(c, offset + (i - 1) * width,
                                                 offset + i * width)]])

get_color_table(c) ==
  LET dh == get_dib_header(c)
  IN  IF dh.tag # "Ok" THEN dh
      ELSE
        LET h == dh.val
            offset == 14 + h.size
            end == get_header(c).val.bfOffBits
        IN  IF h.size = 12 THEN color_table_entries(c, offset, end, 3)
            ELSE IF h.size \in {40, 108, 124} THEN
              LET compression == unwrap(h.compression)
              IN  IF compression = "BI_BITFIELDS" /\ (h.bitcount = 16 \/ h.bitcount = 32)
                    THEN Err("UseExtraBitMasks")
                  ELSE IF compression = "BI_RGB" /\ h.bitcount >= 16
                    THEN Err("DoesNotExist")
                  ELSE color_table_entries(c, offset, end, 4)
            ELSE Err("DoesNotExist")

(***************************************************************************)
(* Pixel array (bmp.rs 592-674).                                           *)
(***************************************************************************)
\* bmp.rs 613 and 646: the u16 product is divided by 32 as an integer, and
\* ceil() is applied to the quotient
row_length_of(bitcount, width, build) ==
  LET product == bitcount * as_u16(width)
  IN  IF product >= U16 /\ build = "debug" THEN Panic
      ELSE Ok(((product % U16) \div 32) * 4)

\* bmp.rs 628-635 and 659-666: split_bits[pixel % (8/bitcount)]
split_bits(bitcount, byte, pixel) ==
  LET k == pixel % (8 \div bitcount)
  IN  CASE bitcount = 1 ->
             (CASE k = 0 -> byte \div 128
                [] k = 1 -> (byte \div 64) % 2
                [] k = 2 -> (byte \div 32) % 2
                [] k = 3 -> (byte \div 16) % 2
                [] k = 4 -> (byte \div 8) % 2
                [] k = 5 -> (byte \div 4) % 2
                [] k = 6 -> (byte \div 2) % 2
                [] k = 7 -> byte % 2)
        [] bitcount = 2 ->
             (CASE k = 0 -> byte \div 64
                [] k = 1 -> (byte \div 16) % 4
                [] k = 2 -> (byte \div 4) % 4
                [] k = 3 -> byte % 4)
        [] bitcount = 4 ->
             (CASE k = 0 -> byte \div 16
                [] k = 1 -> byte % 16)

\* bmp.rs 621 and 625: where the sample of a pixel starts.  For a bitcount
\* below 8 the factor is ceil((bitcount/8) as f64) with an integer division,
\* which is 0
pixel_start(bfOffBits, bitcount, row_length, row_num, pixel) ==
  bfOffBits + row_num * row_length + pixel * (bitcount \div 8)

\* bmp.rs 620-637: the sample pushed for one pixel
pixel_sample(c, bfOffBits, bitcount, row_length, row_num, pixel) ==
  LET start == pixel_start(bfOffBits, bitcount, row_length, row_num, pixel)
  IN  IF bitcount >= 8 THEN slice(c, start, start + bitcount \div 8)
      ELSE <<split_bits(bitcount, c[start + 1], pixel)>>

\* whether reading the sample indexes outside the buffer
pixel_out_of_range(c, bfOffBits, bitcount, row_length, row_num, pixel) ==
  LET start == pixel_start(bfOffBits, bitcount, row_length, row_num, pixel)
  IN  IF bitcount >= 8 THEN start + bitcount \div 8 > Len(c)
      ELSE start >= Len(c)

\* bmp.rs 616-640 and 648-671: the rows in the order they are read from the
\* file.  A bitcount below 8 other than 1, 2 and 4 pushes nothing.
file_rows(c, bfOffBits, bitcount, width, row_length, rows_num) ==
  [r \in 1..rows_num |->
     IF bitcount >= 8 \/ bitcount \in {1, 2, 4}
       THEN [p \in 1..width |->
               pixel_sample(c, bfOffBits, bitcount, row_length, r - 1, p - 1)]
       ELSE <<>>]

\* push_back keeps the file order, push_front reverses it
push_order(rows, height) ==
  IF height < 0 THEN rows
  ELSE [r \in 1..Len(rows) |-> rows[Len(rows) + 1 - r]]

get_pixel_data(c, build) ==
  LET dh == get_dib_header(c)
  IN  IF dh.tag # "Ok" THEN dh
      ELSE
        LET h == dh.val
            bfOffBits == get_header(c).val.bfOffBits
            width == u32_to_int(h.width)
            rl == row_length_of(h.bitcount, h.width, build)
        IN  IF h.height = 0 THEN Ok(<<>>)
            ELSE IF rl.tag # "Ok" THEN Panic
            \* u32 subtraction: underflow aborts a debug build; a release
            \* build wraps to a row count whose first read is out of range
            ELSE IF Len(c) < bfOffBits THEN Panic
            \* division by zero
            ELSE IF rl.val = 0 THEN Panic
            ELSE
              LET row_length == rl.val
                  rows_num == (Len(c) - bfOffBits) \div row_length
              IN  IF \E r \in 0..(rows_num - 1), p \in 0..(width - 1) :
                       (h.bitcount >= 8 \/ h.bitcount \in {1, 2, 4})
                       /\ pixel_out_of_range(c, bfOffBits, h.bitcount, row_length, r, p)
                    THEN Panic
                  ELSE Ok(push_order(file_rows(c, bfOffBits, h.bitcount, width,
                                               row_length, rows_num), h.height))

(***************************************************************************)
(* Color resolution (bmp.rs 706-822).                                      *)
(***************************************************************************)
\* a variant of the comparison: the alpha mask compared the other way round
channel_order_alpha_reversed(h) ==
  IF u32_lt(unwrap(h.RedMask), unwrap(h.AlphaMask)) THEN "abgr" ELSE "bgra"

\* bmp.rs 764-787: the comparison of the masks that picks the byte order.
\* green_mask and blue_mask are both read from RedMask.
channel_order(h) ==
  LET red_mask == unwrap(h.RedMask)
      green_mask == unwrap(h.RedMask)
      blue_mask == unwrap(h.RedMask)
      alpha_mask == unwrap(h.AlphaMask)
  IN  IF u32_lt(alpha_mask, red_mask)
        THEN IF u32_lt(red_mask, blue_mask) THEN "argb" ELSE "abgr"
        ELSE IF u32_lt(red_mask, blue_mask) THEN "rgba" ELSE "bgra"

\* the positions (1-based) in the 4-byte sample of r, g, b, a
channel_positions(order) ==
  CASE order = "argb" -> <<2, 3, 4, 1>>
    [] order = "abgr" -> <<4, 3, 2, 1>>
    [] order = "rgba" -> <<1, 2, 3, 4>>
    [] order = "bgra" -> <<3, 2, 1, 4>>

masks_present(h) ==
  is_some(h.RedMask) /\ is_some(h.GreenMask) /\ is_some(h.BlueMask)

\* bmp.rs 725-748
color_16(h, pixel) ==
  IF h.compression = None THEN Panic
  ELSE IF unwrap(h.compression) = "BI_BITFIELDS" /\ masks_present(h) THEN
    \* red_mask < blue_mask compares RedMask with itself; the other branch
    \* reads pixel[2] of a 2-byte sample
    IF u32_lt(unwrap(h.RedMask), unwrap(h.RedMask))
      THEN (IF Len(pixel) < 3 THEN Panic ELSE Ok(<<pixel[1], pixel[2], pixel[3], 255>>))
      ELSE (IF Len(pixel) < 3 THEN Panic ELSE Ok(<<pixel[3], pixel[2], pixel[1], 255>>))
  ELSE Ok(<<0, 0, 0, 255>>)

\* bmp.rs 749-754
color_24(pixel) ==
  IF Len(pixel) < 3 THEN Panic
  ELSE Ok(<<pixel[3], pixel[2], pixel[1], 255>>)

\* bmp.rs 755-792
color_32(h, pixel) ==
  IF h.compression = None THEN Panic
  ELSE IF unwrap(h.compression) \in {"BI_BITFIELDS", "BI_ALPHABITFIELDS"}
          /\ masks_present(h) THEN
    IF h.AlphaMask = None \/ Len(pixel) < 4 THEN Panic
    ELSE LET pos == channel_positions(channel_order(h))
         IN  Ok(<<pixel[pos[1]], pixel[pos[2]], pixel[pos[3]], pixel[pos[4]]>>)
  ELSE IF Len(pixel) < 4 THEN Panic
  ELSE Ok(<<pixel[1], pixel[2], pixel[3], pixel[4]>>)

\* bmp.rs 793-821: vec[index] aborts when index is not below vec.len()
color_indexed(c, h, pixel) ==
  LET color_table == get_color_table(c)
  IN  IF color_table.tag # "Ok" THEN color_table
      ELSE IF Len(pixel) < 1 THEN Panic
      ELSE
        LET index == pixel[1]
            vec == color_table.val.vec
        IN  IF index >= Len(vec) THEN Panic
            ELSE IF color_table.val.kind = "RGBTRIPLE"
              THEN Ok(Append(vec[index + 1], 255))
              ELSE Ok(vec[index + 1])

get_color_of_px(c, build, x, y) ==
  LET dh == get_dib_header(c)
  IN  IF dh.tag # "Ok" THEN dh
      ELSE
        LET pd == get_pixel_data(c, build)
        IN  IF pd.tag # "Ok" THEN pd
            ELSE IF y >= Len(pd.val) THEN Panic
            ELSE IF x >= Len(pd.val[y + 1]) THEN Panic
            ELSE
              LET h == dh.val
                  pixel == pd.val[y + 1][x + 1]
              IN  CASE h.bitcount = 16 -> color_16(h, pixel)
                    [] h.bitcount = 24 -> color_24(pixel)
                    [] h.bitcount = 32 -> color_32(h, pixel)
                    [] OTHER -> color_indexed(c, h, pixel)

(***************************************************************************)
(* Pixel mutation (bmp.rs 824-898).  The operators return the result and   *)
(* the buffer the call leaves: [res |-> ..., contents |-> ...].  x and y   *)
(* are u16.  The buffers of the model are shorter than 64 KiB, so an index *)
(* that wrapped is out of range.                                           *)
(***************************************************************************)
\* a variant of the writes: a byte past the end of the buffer is appended
write_bytes_appending(c, start, bytes) ==
  [res      |-> Ok(<<>>),
   contents |-> IF start >= Len(c) THEN c \o bytes
                ELSE SubSeq(c, 1, start) \o bytes
                       \o SubSeq(c, start + Len(bytes) + 1, Len(c))]

\* self.contents[start] = b0; self.contents[start+1] = b1; ... in order: the
\* first index out of range aborts, and the bytes written before it stay
write_bytes(c, start, bytes) ==
  LET k == Min(Len(bytes), Max(0, Len(c) - start))
  IN  [res      |-> IF k = Len(bytes) THEN Ok(<<>>) ELSE Panic,
       contents |-> IF k = 0 THEN c
                    ELSE SubSeq(c, 1, start) \o SubSeq(bytes, 1, k)
                           \o SubSeq(c, start + k + 1, Len(c))]

\* bmp.rs 841-844: y = dib_header.height as u16 - y for a bottom-up image
adjust_y(height, y) ==
  IF height > 0 THEN (height % U16) - y ELSE y

\* bmp.rs 846
write_row_length(bitcount, width) ==
  (((((bitcount \div 8) * as_u16(width)) % U16) \div 4) * 4) % U16

\* a variant of the depth test: every depth of whole bytes
supported_bitcount_whole_bytes(bitcount) == bitcount % 8 = 0

\* bmp.rs 836: the depths change_color_of_pixel writes
supported_bitcount(bitcount) == bitcount = 24 \/ bitcount = 32

\* bmp.rs 853-896: the bytes written, in the order they are written; no
\* branch writes at another depth
bytes_to_write(h, new_color) ==
  IF h.bitcount = 24 THEN <<new_color[3], new_color[2], new_color[1]>>
  ELSE IF h.bitcount # 32 THEN <<>>
  ELSE
    LET order == channel_order(h)
    IN  CASE order = "argb" -> <<new_color[4], new_color[1], new_color[2], new_color[3]>>
          [] order = "abgr" -> <<new_color[4], new_color[3], new_color[2], new_color[1]>>
          [] order = "rgba" -> <<new_color[1], new_color[2], new_color[3], new_color[4]>>
          [] order = "bgra" -> <<new_color[3], new_color[2], new_color[1], new_color[4]>>

change_color_of_pixel(c, build, x, y, new_color) ==
  LET dh == get_dib_header(c)
  IN  IF dh.tag # "Ok" THEN [res |-> dh, contents |-> c]
      ELSE
        LET h == dh.val
            bfOffBits == get_header(c).val.bfOffBits
            bitcount == h.bitcount
            y1 == adjust_y(h.height, y)
            y2 == y1 % U16
            product == (bitcount \div 8) * as_u16(h.width)
            row_length == write_row_length(bitcount, h.width)
            start == y2 * row_length + bfOffBits + (bitcount \div 8) * x
        IN  IF ~supported_bitcount(bitcount)
              THEN [res |-> Err("Unsupported"), contents |-> c]
            ELSE IF build = "debug" /\ (y1 < 0 \/ product >= U16 \/ start >= U16)
              THEN [res |-> Panic, contents |-> c]
            ELSE IF bitcount = 32 /\ (h.RedMask = None \/ h.AlphaMask = None)
              THEN [res |-> Panic, contents |-> c]
            ELSE write_bytes(c, start % U16, bytes_to_write(h, new_color))

(***************************************************************************)
(* Flood fill (bmp.rs 1022-1102).  One pass of the while loop is           *)
(* fill_iteration; the final loop over visited is fill_writes.             *)
(***************************************************************************)
\* the four neighbour tests of bmp.rs 1050, 1060, 1071, 1081 in their order:
\* whether the test aborts (u16 overflow in a debug build), whether it is
\* taken, and the coordinate it reads and pushes
neighbour_probes(h, build, x2, y2) ==
  LET probe(raw, taken, isx) ==
        [abort |-> build = "debug" /\ (raw < 0 \/ raw >= U16),
         take  |-> taken,
         x     |-> IF isx THEN raw % U16 ELSE x2,
         y     |-> IF isx THEN y2 ELSE raw % U16]
  IN  << probe(y2 + 1, ((y2 + 1) % U16) < (h.height % U16), FALSE),
         probe(y2 - 1, ((y2 - 1) % U16) > 0, FALSE),
         probe(x2 - 1, ((x2 - 1) % U16) > 0, TRUE),
         probe(x2 + 1, ((x2 + 1) % U16) < as_u16(h.width), TRUE) >>

\* the color each probe reads
probe_colors(c, build, probes) ==
  [i \in 1..Len(probes) |-> get_color_of_px(c, build, probes[i].x, probes[i].y)]

\* the probes from the i-th on, in order: the first test that aborts or read
\* that fails ends the call; a neighbour of the seed's color is pushed
RECURSIVE probe_all(_, _, _, _, _)
probe_all(probes, colors, i, replace_color, q) ==
  IF i > Len(probes) THEN Ok(q)
  ELSE IF probes[i].abort THEN Panic
  ELSE IF ~probes[i].take THEN probe_all(probes, colors, i + 1, replace_color, q)
  ELSE IF colors[i].tag # "Ok" THEN colors[i]
  ELSE probe_all(probes, colors, i + 1, replace_color,
                 IF colors[i].val = replace_color
                   THEN Append(q, <<probes[i].x, probes[i].y>>) ELSE q)

in_seq(e, s) == \E i \in 1..Len(s) : s[i] = e

\* bmp.rs 1038-1094: one pass of the while loop on a non-empty queue
fill_iteration(c, build, h, replace_color, q, v) ==
  IF in_seq(q[1], v) THEN [res |-> Ok(<<>>), queue |-> Tail(q), visited |-> v]
  ELSE
    CHOOSE r \in
      { IF pushed.tag # "Ok" THEN [res |-> pushed, queue |-> q, visited |-> v]
        ELSE [res |-> Ok(<<>>), queue |-> Tail(pushed.val), visited |-> Append(v, q[1])] :
        pushed \in
          { probe_all(probes, colors, 1, replace_color, q) :
            probes \in {neighbour_probes(h, build, q[1][1], q[1][2])},
            colors \in {SubSeq(probe_colors(c, build,
                                            neighbour_probes(h, build, q[1][1], q[1][2])),
                               1, 4)} } } : TRUE

\* bmp.rs 1096-1099: change_color_of_pixel(px[0], px[1]+1, fill) for every
\* visited coordinate; the Result is dropped, an abort is not
RECURSIVE fill_writes(_, _, _, _, _)
fill_writes(c, build, v, i, fill) ==
  IF i > Len(v) THEN [res |-> Ok(v), contents |-> c]
  ELSE
    LET ynext == v[i][2] + 1
    IN  IF ynext >= U16 /\ build = "debug" THEN [res |-> Panic, contents |-> c]
        ELSE CHOOSE r \in
               { IF w.res.tag = "Panic" THEN w
                 ELSE fill_writes(w.contents, build, v, i + 1, fill) :
                 w \in {change_color_of_pixel(c, build, v[i][1], ynext % U16, fill)} } : TRUE

(***************************************************************************)
(* Lines (bmp.rs 908-1014).  A point is <<x, y>>.  line_points is the      *)
(* sequence of coordinates draw_line passes to change_color_of_pixel, in   *)
(* the order of the calls, before they are narrowed to u16.                *)
(***************************************************************************)
\* bmp.rs 930-950
leftmost_of(p1, p2) == IF p1[1] < p2[1] THEN p1 ELSE p2
rightmost_of(p1, p2) == IF p1[1] < p2[1] THEN p2 ELSE p1
highest_of(p1, p2) == IF p1[2] < p2[2] THEN p1 ELSE p2

\* bmp.rs 909-929: the loops run over |p2[0] - p1[0]| when the x are equal
\* and over |p2[1] - p1[1]| when the y are equal
axis_points(p1, p2) ==
  IF p1[1] = p2[1]
    THEN [ay \in 1..Abs(p2[1] - p1[1]) |->
            IF p1[1] < p2[1] THEN <<p1[1], p1[2] + ay - 1>> ELSE <<p2[1], p2[2] + ay - 1>>]
    ELSE [ax \in 1..Abs(p2[2] - p1[2]) |->
            IF p1[2] < p2[2] THEN <<p1[1] + ax - 1, p1[2]>> ELSE <<p2[1] + ax - 1, p2[2]>>]

\* bmp.rs 965-976, 986-994: the middle segments, n of them written
middle_points(p1, p2, middle_segment_length, n) ==
  LET leftmost_p == leftmost_of(p1, p2)
      rightmost_p == rightmost_of(p1, p2)
  IN  [k \in 1..n |->
         LET j == (k - 1) \div middle_segment_length
             ji == (k - 1) % middle_segment_length
         IN  <<leftmost_p[1] + ji + j * middle_segment_length,
               IF highest_of(p1, p2) = leftmost_p
                 THEN rightmost_p[2] + j ELSE rightmost_p[2] - j>>]

\* bmp.rs 952-999: vertical_diff >= 2
steep_points(p1, p2) ==
  LET vertical_diff == Abs(p2[2] - p1[2])
      horizontal_diff == Abs(p2[1] - p1[1])
      leftmost_p == leftmost_of(p1, p2)
      rightmost_p == rightmost_of(p1, p2)
      middle_segment_length == horizontal_diff \div vertical_diff
      two_ends_combined_length ==
        horizontal_diff - middle_segment_length * (vertical_diff - 2)
      end_segment_length == two_ends_combined_length \div 2
      middle_count == (vertical_diff - 2) * middle_segment_length
  IN  IF two_ends_combined_length = 1
        THEN <<leftmost_p>>
               \o middle_points(p1, p2, middle_segment_length, Max(0, middle_count - 1))
               \o <<rightmost_p>>
        ELSE [i \in 1..end_segment_length |-> <<leftmost_p[1] + i - 1, leftmost_p[2]>>]
               \o middle_points(p1, p2, middle_segment_length, middle_count)
               \o [k \in 1..end_segment_length |-> <<rightmost_p[1] - (k - 1), rightmost_p[2]>>]

\* bmp.rs 1000-1011: vertical_diff = 1; floor and ceil of an integer quotient
shallow_points(p1, p2) ==
  LET horizontal_diff == Abs(p2[1] - p1[1])
      leftmost_p == leftmost_of(p1, p2)
      rightmost_p == rightmost_of(p1, p2)
      first_segment == horizontal_diff \div 2
      second_segment == horizontal_diff \div 2
  IN  [i \in 1..first_segment |-> <<leftmost_p[1] + i - 1, leftmost_p[2]>>]
        \o [j \in 1..second_segment |-> <<rightmost_p[1] - (j - 1), rightmost_p[2]>>]

line_points(p1, p2) ==
  IF p1[1] = p2[1] \/ p1[2] = p2[2] THEN axis_points(p1, p2)
  ELSE IF Abs(p2[2] - p1[2]) >= 2 THEN steep_points(p1, p2)
  ELSE shallow_points(p1, p2)

\* the calls change_color_of_pixel(pts[i]) from the i-th on: a coordinate
\* outside u16 aborts a debug build and wraps in a release build; the Result
\* of each call is dropped, an abort is not.  calls is the number of calls
\* made: pts[1] .. pts[calls] were passed to change_color_of_pixel
RECURSIVE line_writes(_, _, _, _, _)
line_writes(c, build, pts, i, fill) ==
  IF i > Len(pts) THEN [res |-> Ok(<<>>), contents |-> c, calls |-> Len(pts)]
  ELSE IF build = "debug" /\ \E k \in 1..2 : pts[i][k] < 0 \/ pts[i][k] >= U16
    THEN [res |-> Panic, contents |-> c, calls |-> i - 1]
  ELSE CHOOSE r \in
         { IF w.res.tag = "Panic"
             THEN [res |-> Panic, contents |-> w.contents, calls |-> i]
           ELSE line_writes(w.contents, build, pts, i + 1, fill) :
           w \in {change_color_of_pixel(c, build, pts[i][1] % U16, pts[i][2] % U16, fill)} } : TRUE

draw_line(c, build, fill, p1, p2) ==
  CHOOSE r \in {line_writes(c, build, pts, 1, fill) :
                pts \in {SubSeq(line_points(p1, p2), 1, Len(line_points(p1, p2)))}} : TRUE

(***************************************************************************)
(* The files the model loads: well-formed BMP files laid out as            *)
(* get_header, get_dib_header, get_extra_bit_masks and get_color_table     *)
(* read them, with the pixel rows padded to 4 bytes (the format's stride). *)
(* An image is described by                                                *)
(*   layout   12 | 40 | 108 | 124: the header laid out                     *)
(*   disc     the u32 stored in the header's size field                    *)
(*   width, height, bitcount, comp (the compression code)                  *)
(*   masks    <<red, green, blue, alpha>> of a bit-field image, each a u32 *)
(*   ncolors  entries of the color table                                   *)
(*   pattern  "uniform" | "checker" | "ramp": the color of each pixel      *)
(*   trail    bytes after the pixel array                                  *)
(***************************************************************************)
le16(n) == LET u == n % U16 IN <<u % 256, u \div 256>>

\* a u32, and a signed 32-bit number
le32(a) == le16(a[2]) \o le16(a[1])

le32s(n) ==
  <<n % 256, (n \div 256) % 256, (n \div 65536) % 256, (n \div 16777216) % 256>>

zeros(n) == [i \in 1..n |-> 0]

RECURSIVE concat(_)
concat(ss) == IF ss = <<>> THEN <<>> ELSE Head(ss) \o concat(Tail(ss))

\* the stride of the file format
file_stride(bitcount, width) == 4 * ((bitcount * width + 31) \div 32)

\* the mask of byte k (0..3) of a sample: 0xFF, 0xFF00, 0xFF0000, 0xFF000000
byte_mask(k) ==
  CASE k = 0 -> <<0, 255>>
    [] k = 1 -> <<0, 65280>>
    [] k = 2 -> <<255, 0>>
    [] k = 3 -> <<65280, 0>>

\* <<red, green, blue, alpha>> masks, named by the order of the bytes in the file
MaskBGRA == <<byte_mask(2), byte_mask(1), byte_mask(0), byte_mask(3)>>
MaskRGBA == <<byte_mask(0), byte_mask(1), byte_mask(2), byte_mask(3)>>
MaskARGB == <<byte_mask(1), byte_mask(2), byte_mask(3), byte_mask(0)>>
MaskABGR == <<byte_mask(3), byte_mask(2), byte_mask(1), byte_mask(0)>>

\* the number a pattern gives the pixel at column x of visual row y
pattern_index(img, x, y) ==
  CASE img.pattern = "uniform" -> 0
    [] img.pattern = "checker" -> (x + y) % 2
    [] img.pattern = "ramp" -> y * img.width + x

true_color(bitcount, k) ==
  <<(30 + 10 * k) % 256, (20 + 10 * k) % 256, (10 + 10 * k) % 256,
    IF bitcount = 32 THEN (200 + k) % 256 ELSE 255>>

\* entry k of the color table in file order (blue, green, red, reserved)
table_entry(k, width) ==
  IF width = 3 THEN <<(3 + 5 * k) % 256, (2 + 5 * k) % 256, (1 + 5 * k) % 256>>
  ELSE <<(3 + 5 * k) % 256, (2 + 5 * k) % 256, (1 + 5 * k) % 256, 0>>

\* visual row of file row r
visual_row(img, r) == IF img.height < 0 THEN r ELSE Abs(img.height) - 1 - r

\* byte k (0..3) of a 32-bit sample of color rgba
sample32_byte(img, rgba, k) ==
  IF img.comp \in {3, 6}
    THEN LET ch == CHOOSE i \in 1..4 : img.masks[i] = byte_mask(k)
         IN  rgba[ch]
    ELSE <<rgba[3], rgba[2], rgba[1], rgba[4]>>[k + 1]

RECURSIVE packed_byte(_, _, _, _)
packed_byte(img, y, first, n) ==
  IF n = 0 THEN 0
  ELSE
    LET idx == IF first < img.width
                 THEN pattern_index(img, first, y) % (2 ^ img.bitcount) ELSE 0
    IN  idx * (2 ^ (img.bitcount * (n - 1))) + packed_byte(img, y, first + 1, n - 1)

\* byte j of file row r
file_row_byte(img, r, j) ==
  LET y == visual_row(img, r)
      bc == img.bitcount
  IN  IF bc < 8 THEN packed_byte(img, y, j * (8 \div bc), 8 \div bc)
      ELSE
        LET bpp == bc \div 8
            x == j \div bpp
            k == j % bpp
            n == IF x < img.width THEN pattern_index(img, x, y) ELSE 0
        IN  IF x >= img.width THEN 0
            ELSE CASE bc = 8 -> n % 256
                   [] bc = 16 -> le16(1057 * (n + 1))[k + 1]
                   [] bc = 24 -> true_color(bc, n)[3 - k]
                   [] bc = 32 -> sample32_byte(img, true_color(bc, n), k)

pixel_array(img) ==
  LET stride == file_stride(img.bitcount, img.width)
  IN  [i \in 1..(stride * Abs(img.height)) |->
         file_row_byte(img, (i - 1) \div stride, (i - 1) % stride)]

dib_header_bytes(img) ==
  LET info == le32(img.disc) \o le32(u32(img.width)) \o le32s(img.height) \o le16(1)
              \o le16(img.bitcount) \o le32(u32(img.comp))
              \o le32(u32(file_stride(img.bitcount, img.width) * Abs(img.height)))
              \o le32(u32(2835)) \o le32(u32(2835)) \o le32(u32(img.ncolors))
              \o le32(u32(0))
      v4 == concat([i \in 1..4 |-> le32(img.masks[i])]) \o <<66, 71, 82, 115>>
            \o zeros(36) \o zeros(12)
      v5 == le32(u32(4)) \o zeros(12)
  IN  CASE img.layout = 12 ->
             le32(img.disc) \o le16(img.width) \o le16(img.height) \o le16(1)
             \o le16(img.bitcount)
        [] img.layout = 40 -> info
        [] img.layout = 108 -> info \o v4
        [] img.layout = 124 -> info \o v4 \o v5

extra_mask_bytes(img) ==
  IF img.layout = 40 /\ img.comp = 3
    THEN concat([i \in 1..3 |-> le32(img.masks[i])])
  ELSE IF img.layout = 40 /\ img.comp = 6
    THEN concat([i \in 1..4 |-> le32(img.masks[i])])
  ELSE <<>>

color_table_bytes(img) ==
  concat([k \in 1..img.ncolors |->
            table_entry(k - 1, IF img.layout = 12 THEN 3 ELSE 4)])

make_file(img) ==
  LET dib == dib_header_bytes(img)
      between == extra_mask_bytes(img) \o color_table_bytes(img)
      pixels == pixel_array(img)
      off == 14 + Len(dib) + Len(between)
      total == off + Len(pixels) + Len(img.trail)
  IN  <<66, 77>> \o le32(u32(total)) \o zeros(4) \o le32(u32(off))
      \o dib \o between \o pixels \o img.trail

(***************************************************************************)
(* Families of files.                                                      *)
(***************************************************************************)
image(layout, disc, width, height, bitcount, comp, masks, ncolors, pattern) ==
  [layout |-> layout, disc |-> disc, width |-> width, height |-> height,
   bitcount |-> bitcount, comp |-> comp, masks |-> masks, ncolors |-> ncolors,
   pattern |-> pattern, trail |-> <<>>]

BitCounts == {1, 2, 4, 8, 16, 24, 32}
Widths == 1..MaxWidth
Heights == {h \in (-MaxHeight)..MaxHeight : h # 0}
Layouts == {12, 40, 108, 124}

\* 24-bit images
Images24 ==
  {image(40, u32(40), w, h, 24, 0, MaskBGRA, 0, pat) :
     w \in Widths, h \in Heights, pat \in {"uniform", "checker", "ramp"}}
  \cup {image(12, u32(12), w, h, 24, 0, MaskBGRA, 0, "ramp") : w \in Widths, h \in Heights}

\* 32-bit images: without masks, with the masks after a 40-byte header, and
\* with the masks in a 108- or 124-byte header
Images32 ==
  {image(40, u32(40), w, h, 32, comp, MaskBGRA, 0, "ramp") :
     w \in Widths, h \in Heights, comp \in {0, 3, 6}}
  \cup {image(108, u32(108), w, h, 32, 3, m, 0, "ramp") :
          w \in Widths, h \in Heights, m \in {MaskBGRA, MaskRGBA, MaskARGB, MaskABGR}}
  \cup {image(124, u32(124), w, h, 32, comp, MaskBGRA, 0, "ramp") :
          w \in Widths, h \in Heights, comp \in {0, 3, 6}}

\* 8-bit images with a color table shorter than, and as long as, the indexes used
Images8 ==
  {image(l, u32(l), w, h, 8, 0, MaskBGRA, n, "ramp") :
     l \in {12, 40}, w \in Widths, h \in Heights, n \in {2, MaxWidth * MaxHeight}}

\* 1-, 2- and 4-bit images: one pixel, and one and more than one 32-bit word per row
ImagesPacked ==
  {image(40, u32(40), IF words = 0 THEN 1 ELSE (32 \div bc) + words - 1, h, bc, 0,
         MaskBGRA, IF full THEN 2 ^ bc ELSE 1, "ramp") :
     bc \in {1, 2, 4}, words \in {0, 1, 2}, h \in {-1, 1}, full \in BOOLEAN}

Images16 ==
  {image(40, u32(40), w, h, 16, 0, MaskBGRA, 0, "ramp") : w \in Widths, h \in Heights}
  \cup {image(108, u32(108), w, h, 16, 3, <<u32(63488), u32(2016), u32(31), u32(0)>>, 0, "ramp") :
          w \in Widths, h \in Heights}

\* headers: every layout under its own and under other size fields, every
\* compression code of the table and one outside it
ImagesHeader ==
  {image(l, <<hi, l * m + a>>, 4, h, bc, comp, MaskBGRA, 0, "ramp") :
     l \in Layouts, m \in {0, 1}, a \in {0, 64, 256}, hi \in {0, 1, 65535},
     h \in {-1, 1}, bc \in {8, 24}, comp \in {0, 3}}
  \cup {image(l, u32(l), 4, 1, bc, comp, MaskBGRA, 0, "ramp") :
          l \in Layouts, bc \in BitCounts, comp \in 0..7}
  \cup {image(l, u32(d), w, 1, 24, 0, MaskBGRA, 0, "ramp") :
          l \in Layouts, d \in Layouts, w \in {1, 4}}
  \cup {image(l, u32(l), 4, 1, bc, comp, MaskBGRA, n, "ramp") :
          l \in Layouts, bc \in {4, 8}, comp \in {0, 1, 2}, n \in {1, 2}}

(***************************************************************************)
(* The state machine.  new_from_file loads a file; every call is one       *)
(* action, except fill_bucket, whose while loop takes one step per pass.   *)
(* A call that aborts ends the program.  A behaviour makes at most MaxOps   *)
(* calls.                                                                  *)
(***************************************************************************)
NoResult == [tag |-> "None"]

Load(family) ==
  /\ contents \in {make_file(img) : img \in family}
  /\ loaded = contents
  /\ before = contents
  /\ pc = "idle"
  /\ op = "load"
  /\ args = <<>>
  /\ result = NoResult
  /\ queue = <<>>
  /\ visited = <<>>
  /\ nops = 0

\* a call that reads: name(arguments) returned r
Returns(name, a, r) ==
  /\ op' = name
  /\ args' = a
  /\ result' = r
  /\ before' = contents
  /\ pc' = IF r.tag = "Panic" THEN "panicked" ELSE "idle"
  /\ nops' = nops + 1
  /\ UNCHANGED <<contents, loaded, queue, visited>>

Call_get_dib_header ==
  /\ pc = "idle"
  /\ nops < MaxOps
  /\ Returns("get_dib_header", <<>>, get_dib_header(contents))

Call_get_extra_bit_masks ==
  /\ pc = "idle"
  /\ nops < MaxOps
  /\ Returns("get_extra_bit_masks", <<>>, get_extra_bit_masks(contents))

Call_get_color_table ==
  /\ pc = "idle"
  /\ nops < MaxOps
  /\ Returns("get_color_table", <<>>, get_color_table(contents))

Call_get_pixel_data ==
  /\ pc = "idle"
  /\ nops < MaxOps
  /\ \E build \in Builds :
       Returns("get_pixel_data", <<>>, get_pixel_data(contents, build))

\* the width and height the file was written with: the coordinates the
\* callers draw from run one past them
loaded_width ==
  LET dh == get_dib_header(loaded)
  IN  IF dh.tag = "Ok" THEN u32_to_int(dh.val.width) ELSE MaxWidth

loaded_height ==
  LET dh == get_dib_header(loaded)
  IN  IF dh.tag = "Ok" THEN Abs(dh.val.height) ELSE MaxHeight

Call_get_color_of_px ==
  /\ pc = "idle"
  /\ nops < MaxOps
  /\ \E x \in 0..loaded_width, y \in 0..loaded_height, build \in Builds :
       Returns("get_color_of_px", [x |-> x, y |-> y],
               get_color_of_px(contents, build, x, y))

(***************************************************************************)
(* The stride of get_pixel_data as a function of bitcount and width.       *)
(***************************************************************************)
InitStride ==
  /\ contents = <<>>
  /\ loaded = <<>>
  /\ before = <<>>
  /\ pc = "idle"
  /\ op = "load"
  /\ args \in [bitcount : BitCounts, width : 1..MaxStrideWidth]
  /\ result = NoResult
  /\ queue = <<>>
  /\ visited = <<>>
  /\ nops = 0

Call_row_length ==
  /\ pc = "idle"
  /\ nops < MaxOps
  /\ op = "load"
  /\ \E build \in Builds :
       Returns("row_length", args,
               row_length_of(args.bitcount, u32(args.width), build))

NextStride == Call_row_length

SpecStride == InitStride /\ [][NextStride]_vars

(***************************************************************************)
(* Header parsing.                                                         *)
(***************************************************************************)
InitHeader == Load(ImagesHeader)

NextHeader ==
  \/ Call_get_dib_header
  \/ Call_get_extra_bit_masks
  \/ Call_get_color_table

SpecHeader == InitHeader /\ [][NextHeader]_vars

(***************************************************************************)
(* Reading pixels.                                                         *)
(***************************************************************************)
InitRead == Load(Images24 \cup Images32 \cup Images8 \cup ImagesPacked \cup Images16)

NextRead ==
  \/ Call_get_pixel_data
  \/ Call_get_color_of_px

SpecRead == InitRead /\ [][NextRead]_vars

(***************************************************************************)
(* Writing pixels.                                                         *)
(***************************************************************************)
NewColors == {<<30, 20, 10, 255>>, <<11, 22, 33, 255>>, <<251, 252, 253, 254>>}

\* the result of a call that may have written: r is [res, contents]
Wrote(name, a, r) ==
  /\ op' = name
  /\ args' = a
  /\ result' = r.res
  /\ contents' = r.contents
  /\ before' = contents
  /\ pc' = IF r.res.tag = "Panic" THEN "panicked" ELSE "idle"
  /\ nops' = nops + 1
  /\ UNCHANGED <<loaded, queue, visited>>

\* a call made while fewer than limit calls have been made
change_color_of_pixel_call(limit) ==
  /\ pc = "idle"
  /\ nops < limit
  /\ \E x \in 0..(loaded_width - 1), y \in 0..(loaded_height - 1),
        new_color \in NewColors, build \in Builds :
       Wrote("change_color_of_pixel", [x |-> x, y |-> y, new_color |-> new_color],
             change_color_of_pixel(contents, build, x, y, new_color))

Call_change_color_of_pixel == change_color_of_pixel_call(MaxOps)

ImagesOtherDepths ==
  {image(l, u32(l), 4, h, bc, 0, MaskBGRA, 2, "ramp") :
     l \in {12, 40}, h \in {-2, 2}, bc \in {1, 2, 4, 8, 16}}
  \cup {image(40, <<0, 64>>, 4, 2, bc, 0, MaskBGRA, 0, "ramp") : bc \in {8, 24}}

\* 24-bit images whose rows are not a multiple of 4 bytes and that
\* get_pixel_data reads without an abort
ImagesUnaligned ==
  {image(40, u32(40), 3, h, 24, 0, MaskBGRA, 0, "ramp") : h \in {-3, 3}}
  \cup {image(40, u32(40), 5, h, 24, 0, MaskBGRA, 0, "ramp") : h \in {-2, 2}}

InitWrite == Load(Images24 \cup Images32 \cup ImagesOtherDepths \cup ImagesUnaligned)

NextWrite == Call_change_color_of_pixel

SpecWrite == InitWrite /\ [][NextWrite]_vars

(***************************************************************************)
(* Flood fill.                                                             *)
(***************************************************************************)
FillColors == {<<11, 22, 33, 255>>}

\* bmp.rs 1025-1037: the header, the color of the seed, the first queue
fill_bucket_call(limit) ==
  /\ pc = "idle"
  /\ nops < limit
  /\ \E x \in 0..(loaded_width - 1), y \in 0..(loaded_height - 1),
        fill \in FillColors, build \in Builds :
     \E dh \in {get_dib_header(contents)},
        replace_color \in {get_color_of_px(contents, build, x, y)} :
       LET a == [fill |-> fill, x |-> x, y |-> y, build |-> build]
       IN  IF dh.tag # "Ok" THEN Returns("fill_bucket", a, dh)
           ELSE IF replace_color.tag # "Ok" THEN Returns("fill_bucket", a, replace_color)
           ELSE /\ op' = "fill_bucket"
                /\ args' = a @@ [replace_color |-> replace_color.val,
                                 dib_header |-> dh.val]
                /\ result' = NoResult
                /\ before' = contents
                /\ pc' = "fill_loop"
                /\ queue' = << <<x % U16, y % U16>> >>
                /\ visited' = <<>>
                /\ nops' = nops + 1
                /\ UNCHANGED <<contents, loaded>>

Call_fill_bucket == fill_bucket_call(MaxOps)

\* a variant of the pass: the pixel taken from the queue is painted during
\* the pass (the call commented out at bmp.rs 1046)
FillLoopPainting ==
  /\ pc = "fill_loop"
  /\ queue # <<>>
  /\ \E it \in {fill_iteration(contents, args.build, args.dib_header,
                                args.replace_color, queue, visited)},
        w \in {change_color_of_pixel(contents, args.build,
                                     queue[1][1], queue[1][2], args.fill)} :
         /\ queue' = it.queue
         /\ visited' = it.visited
         /\ contents' = w.contents
         /\ IF it.res.tag = "Ok"
              THEN UNCHANGED <<pc, result>>
              ELSE /\ result' = it.res
                   /\ pc' = IF it.res.tag = "Panic" THEN "panicked" ELSE "idle"
  /\ UNCHANGED <<loaded, op, args, before, nops>>

\* bmp.rs 1038-1094: one pass of the while loop
FillLoop ==
  /\ pc = "fill_loop"
  /\ queue # <<>>
  /\ \E it \in {fill_iteration(contents, args.build, args.dib_header,
                                args.replace_color, queue, visited)} :
         /\ queue' = it.queue
         /\ visited' = it.visited
         /\ IF it.res.tag = "Ok"
              THEN UNCHANGED <<pc, result>>
              ELSE /\ result' = it.res
                   /\ pc' = IF it.res.tag = "Panic" THEN "panicked" ELSE "idle"
  /\ UNCHANGED <<contents, loaded, op, args, before, nops>>

\* bmp.rs 1095-1101: the queue is empty; write the fill color and return
FillWrites ==
  /\ pc = "fill_loop"
  /\ queue = <<>>
  /\ \E w \in {fill_writes(contents, args.build, visited, 1, args.fill)} :
         /\ contents' = w.contents
         /\ result' = w.res
         /\ pc' = IF w.res.tag = "Panic" THEN "panicked" ELSE "idle"
  /\ UNCHANGED <<loaded, op, args, before, queue, visited, nops>>

ImagesFill ==
  {image(108, u32(108), w, h, 32, 3, MaskBGRA, 0, pat) :
     w \in Widths, h \in Heights, pat \in {"uniform", "checker"}}
  \cup {image(40, u32(40), w, h, 32, 0, MaskBGRA, 0, "uniform") :
          w \in Widths, h \in Heights}
  \cup {image(40, u32(40), 4, h, 8, 0, MaskBGRA, n, "checker") :
          h \in Heights, n \in {1, 2}}
  \cup {image(40, <<0, 64>>, 4, h, 24, 0, MaskBGRA, 0, "uniform") : h \in {-2, 2}}

\* images of three rows: a seed in the middle row has a row above and below
ImagesFillTall ==
  {image(108, u32(108), 3, h, 32, 3, MaskBGRA, 0, pat) :
     h \in {-3, 3}, pat \in {"uniform", "checker"}}
  \cup {image(40, u32(40), 4, h, 24, 0, MaskBGRA, 0, "checker") : h \in {-3, 3}}

InitFill == Load(Images24 \cup ImagesFill \cup ImagesFillTall)

NextFill ==
  \/ Call_fill_bucket
  \/ FillLoop
  \/ FillWrites

SpecFill == InitFill /\ [][NextFill]_vars

\* images for the progress of one call
ImagesFillLive ==
  {image(108, u32(108), 2, h, 32, 3, MaskBGRA, 0, pat) :
     h \in {-2, 2}, pat \in {"uniform", "checker"}}
  \cup {image(108, u32(108), 3, h, 32, 3, MaskBGRA, 0, "uniform") : h \in {-2, 2}}

InitFillLive == Load(ImagesFillLive)

\* the call runs on: a pass of the while loop that can be made is made, and
\* so is the loop over visited
SpecFillLive ==
  InitFillLive /\ [][NextFill]_vars /\ WF_vars(FillLoop) /\ WF_vars(FillWrites)

(***************************************************************************)
(* Lines.                                                                  *)
(***************************************************************************)
\* the pixels of the image as loaded
loaded_pixels == (0..(loaded_width - 1)) \X (0..(loaded_height - 1))

draw_line_call(limit) ==
  /\ pc = "idle"
  /\ nops < limit
  /\ \E p1 \in loaded_pixels, p2 \in loaded_pixels,
        fill \in FillColors, build \in Builds :
       Wrote("draw_line", [fill |-> fill, p1 |-> p1, p2 |-> p2, build |-> build],
             draw_line(contents, build, fill, p1, p2))

Call_draw_line == draw_line_call(MaxOps)

\* images for lines: every small size, and sizes with room for the segments
\* of a slanted line
ImagesLine ==
  {image(108, u32(108), w, h, 32, 3, MaskBGRA, 0, "ramp") :
     w \in Widths, h \in Heights}
  \cup {image(l, u32(l), w, h, bc, 3 * ((bc - 24) \div 8), MaskBGRA, 0, "ramp") :
          l \in {108}, w \in {4, 8}, h \in {-4, 4}, bc \in {24, 32}}
  \cup {image(108, u32(108), 5, h, 32, 3, MaskBGRA, 0, "ramp") : h \in {-5, 5}}

InitLine == Load(ImagesLine)

NextLine == Call_draw_line

SpecLine == InitLine /\ [][NextLine]_vars

(***************************************************************************)
(* Sequences of mutations: at most MaxSeqOps calls of                      *)
(* change_color_of_pixel, draw_line and fill_bucket on one image.          *)
(***************************************************************************)
ImagesSeq ==
  {image(108, u32(108), 2, h, 32, 3, MaskBGRA, 0, "uniform") : h \in {-2, 2}}
  \cup {image(40, u32(40), 4, h, 24, 0, MaskBGRA, 0, "checker") : h \in {-1, 2}}

InitSeq == Load(ImagesSeq)

NextSeq ==
  \/ change_color_of_pixel_call(MaxSeqOps)
  \/ draw_line_call(MaxSeqOps)
  \/ fill_bucket_call(MaxSeqOps)
  \/ FillLoop
  \/ FillWrites

SpecSeq == InitSeq /\ [][NextSeq]_vars

(***************************************************************************)
(* Tall images: the pixel data is longer than 65535 bytes, so the u16      *)
(* offset arithmetic of change_color_of_pixel (bmp.rs 849) passes 2^16 on  *)
(* the last rows.                                                          *)
(***************************************************************************)
ImagesTall ==
  {image(40, u32(40), 4, h, 24, 0, MaskBGRA, 0, "uniform") :
     h \in {-TallHeight24, TallHeight24}}
  \cup {image(108, u32(108), 4, h, 32, 3, MaskBGRA, 0, "uniform") :
          h \in {-TallHeight32, TallHeight32}}

InitTall == Load(ImagesTall)

\* the rows the calls are made on: the two first and the two last
TallRows == {0, 1, loaded_height - 2, loaded_height - 1}

Call_change_color_of_pixel_tall ==
  /\ pc = "idle"
  /\ nops < MaxOps
  /\ \E x \in 0..(loaded_width - 1), y \in TallRows,
        new_color \in NewColors, build \in Builds :
       Wrote("change_color_of_pixel", [x |-> x, y |-> y, new_color |-> new_color],
             change_color_of_pixel(contents, build, x, y, new_color))

NextTall == Call_change_color_of_pixel_tall

SpecTall == InitTall /\ [][NextTall]_vars

(***************************************************************************)
(* Images whose header height is 0, with no pixel bytes and with the bytes *)
(* of one or two rows after the header.                                    *)
(***************************************************************************)
ImagesZeroHeight ==
  {[image(l, u32(l), w, 0, bc, IF l = 40 THEN 0 ELSE 3, MaskBGRA, 0, "uniform")
      EXCEPT !.trail = zeros(n * file_stride(bc, w))] :
     l \in {40, 108}, w \in Widths, bc \in {24, 32}, n \in 0..2}
  \cup {image(40, u32(40), w, 0, 8, 0, MaskBGRA, 2, "uniform") : w \in Widths}

InitZero == Load(ImagesZeroHeight)

\* change_color_of_pixel with any coordinates of the bounded grid: an image
\* of height 0 has no coordinate in range
Call_change_color_of_pixel_anywhere ==
  /\ pc = "idle"
  /\ nops < MaxOps
  /\ \E x \in 0..(MaxWidth - 1), y \in 0..(MaxHeight - 1),
        new_color \in NewColors, build \in Builds :
       Wrote("change_color_of_pixel", [x |-> x, y |-> y, new_color |-> new_color],
             change_color_of_pixel(contents, build, x, y, new_color))

NextZero ==
  \/ Call_get_pixel_data
  \/ Call_get_color_of_px
  \/ Call_change_color_of_pixel_anywhere

SpecZero == InitZero /\ [][NextZero]_vars

(***************************************************************************)
(* Properties.                                                             *)
(***************************************************************************)
\* the header of the buffer a call started from
header_before == get_dib_header(before)

\* C1: the row stride get_pixel_data uses is 4 * ceil(bitcount * width / 32)
\* bytes for every width and every bitcount in {1,2,4,8,16,24,32}: 12 for
\* width 3 at 24 bits, 4 for width 1 at 1 bit, 4 for width 16 at 1 bit.
C1_RowStride ==
  op = "row_length" =>
    result = Ok(4 * ((args.bitcount * args.width + 31) \div 32))

\* the fields a header of each shape carries
Shape(h) ==
  IF h.compression = None THEN "Core"
  ELSE IF h.RedMask = None THEN "Info"
  ELSE IF h.Intent = None THEN "V4"
  ELSE "V5"

\* the 4-byte little-endian value at offset 14 of the buffer, as <<high, low>>
ValueAt14(c) == <<c[17] + 256 * c[18], c[15] + 256 * c[16]>>

\* the header of n bytes does not fit the buffer, or (n > 12) its compression
\* code is not one of the table: the two ways a selected shape is not built
Unbuildable(c, n) ==
  \/ Len(c) < 14 + n
  \/ n > 12 /\ (c[31] > 6 \/ c[32] # 0 \/ c[33] # 0 \/ c[34] # 0)

\* C2: get_dib_header dispatches on the 4-byte little-endian value at offset
\* 14: 12, 40, 108 and 124 select the Core, Info, V4 and V5 shapes, and every
\* other value returns the error Unsupported.  (A selected shape whose bytes
\* are missing or whose compression code is unknown aborts while it is built.)
C2_Dispatch ==
  op = "get_dib_header" =>
    LET d == ValueAt14(before)
        built(n, shape) ==
          IF Unbuildable(before, n) THEN result = Panic
          ELSE result.tag = "Ok" /\ Shape(result.val) = shape /\ result.val.size = n
    IN  CASE d = <<0, 12>>  -> built(12, "Core")
          [] d = <<0, 40>>  -> built(40, "Info")
          [] d = <<0, 108>> -> built(108, "V4")
          [] d = <<0, 124>> -> built(124, "V5")
          [] OTHER -> result = Err("Unsupported")

\* the size field 124 selected the V5 shape
C2_Witness ==
  /\ op = "get_dib_header"
  /\ ValueAt14(before) = <<0, 124>>
  /\ result.tag = "Ok"
  /\ Shape(result.val) = "V5"

\* the minimal image: file header with the offset field 54, 40-byte header of
\* a 1x1 image with bitcount 24 and compression RGB, one row 10,20,30 padded
Minimal1x1 ==
  << 66, 77, 58, 0, 0, 0, 0, 0, 0, 0, 54, 0, 0, 0,
     40, 0, 0, 0, 1, 0, 0, 0, 1, 0, 0, 0, 1, 0, 24, 0, 0, 0, 0, 0,
     4, 0, 0, 0, 19, 11, 0, 0, 19, 11, 0, 0, 0, 0, 0, 0, 0, 0, 0, 0,
     10, 20, 30, 0 >>

\* C3: the minimal 1x1 24-bit image decodes to a grid of exactly one row
\* with one sample, and get_color_of_px(0,0) returns [30,20,10,255].
C3_Minimal ==
  before = Minimal1x1 =>
    /\ op = "get_pixel_data" =>
         result.tag = "Ok" /\ Len(result.val) = 1 /\ Len(result.val[1]) = 1
    /\ (op = "get_color_of_px" /\ args = [x |-> 0, y |-> 0]) =>
         result = Ok(<<30, 20, 10, 255>>)

\* the call started from an image of this bitcount whose header parses
depth_before(bitcounts) ==
  header_before.tag = "Ok" /\ header_before.val.bitcount \in bitcounts

\* C4: on a 24-bit image, for every in-range (x,y) and both row orientations,
\* change_color_of_pixel(x,y,[r,g,b,255]) followed by get_color_of_px(x,y)
\* returns [r,g,b,255].
C4_RoundTrip24 ==
  (op = "change_color_of_pixel" /\ depth_before({24}) /\ args.new_color[4] = 255) =>
    /\ result.tag = "Ok"
    /\ \A build \in Builds :
         get_color_of_px(contents, build, args.x, args.y) = Ok(args.new_color)

\* where the format stores the image: the offset of the pixel array, the
\* stride of a row, the bytes of a sample
stored_offset(c) == c[11] + 256 * c[12]
stored_stride(h) == 4 * ((h.bitcount * u32_to_int(h.width) + 31) \div 32)
stored_sample(c, h, k, x) ==
  LET n == h.bitcount \div 8
      p == stored_offset(c) + k * stored_stride(h) + n * x
  IN  SubSeq(c, p + 1, p + n)

\* the k-th row stored in the file (k from 0), as samples of whole bytes
stored_row(c, h, k) ==
  [x \in 1..u32_to_int(h.width) |-> stored_sample(c, h, k, x - 1)]

\* the stored row that is the visual row y
stored_row_index(h, y) == IF h.height < 0 THEN y ELSE h.height - 1 - y

\* C5: row 0 of the grid returned by get_pixel_data is the top visual row
\* whatever the sign of the header height: the first stored row when the
\* height is negative, the last of the |height| stored rows when positive
\* (stated for the depths whose samples are whole bytes).
C5_TopRowFirst ==
  (op = "get_pixel_data" /\ depth_before({8, 16, 24, 32})) =>
    /\ result.tag = "Ok"
    /\ Len(result.val) = Abs(header_before.val.height)
    /\ result.val[1] = stored_row(before, header_before.val,
                                  stored_row_index(header_before.val, 0))

\* a 32-bit image with bit-field compression whose header carries the masks
\* red 0x00FF0000, green 0x0000FF00, blue 0x000000FF, alpha 0xFF000000
masks_bgra_before ==
  /\ depth_before({32})
  /\ header_before.val.compression \in {Some("BI_BITFIELDS"), Some("BI_ALPHABITFIELDS")}
  /\ header_before.val.RedMask = Some(<<255, 0>>)
  /\ header_before.val.GreenMask = Some(<<0, 65280>>)
  /\ header_before.val.BlueMask = Some(<<0, 255>>)
  /\ header_before.val.AlphaMask = Some(<<65280, 0>>)

in_range_before(x, y) ==
  x < u32_to_int(header_before.val.width) /\ y < Abs(header_before.val.height)

\* C6: with these masks a pixel whose file bytes are [b,g,r,a] resolves
\* through get_color_of_px to [r,g,b,a].
C6_MasksBGRA ==
  (op = "get_color_of_px" /\ masks_bgra_before /\ in_range_before(args.x, args.y)) =>
    LET bytes == stored_sample(before, header_before.val,
                               stored_row_index(header_before.val, args.y), args.x)
    IN  result = Ok(<<bytes[3], bytes[2], bytes[1], bytes[4]>>)

\* a pixel off the diagonal of such an image resolved, its four bytes distinct
C6_Witness ==
  /\ op = "get_color_of_px"
  /\ masks_bgra_before
  /\ args = [x |-> 1, y |-> 0]
  /\ in_range_before(1, 0)
  /\ stored_sample(before, header_before.val,
                   stored_row_index(header_before.val, 0), 1) = <<20, 30, 40, 201>>
  /\ result = Ok(<<40, 30, 20, 201>>)

\* the 2x2 images of one pattern, bottom-up and top-down
Grid2x2(pattern) ==
  {make_file(image(108, u32(108), 2, h, 32, 3, MaskBGRA, 0, pattern)) : h \in {-2, 2}}

\* fill_bucket has returned or aborted
fill_ended == op = "fill_bucket" /\ pc # "fill_loop"

\* the coordinates of a list, and whether it names one twice
coordinates(list) == {list[i] : i \in 1..Len(list)}
has_duplicate(list) == \E i, j \in 1..Len(list) : i # j /\ list[i] = list[j]

\* C7: fill_bucket seeded at (0,0) on a uniformly colored 2x2 grid returns a
\* visited list with all 4 coordinates, each exactly once; on a 2x2
\* checkerboard it returns a visited list of exactly 1 coordinate.
C7_Fill2x2 ==
  (fill_ended /\ args.x = 0 /\ args.y = 0) =>
    /\ (before \in Grid2x2("uniform")) =>
         /\ result.tag = "Ok"
         /\ coordinates(result.val) = (0..1) \X (0..1)
         /\ Len(result.val) = 4
    /\ (before \in Grid2x2("checker")) =>
         /\ result.tag = "Ok"
         /\ Len(result.val) = 1

\* the sample the program decodes at (x,y), when it decodes the grid
sample_before(x, y) ==
  LET pd == get_pixel_data(before, "release")
  IN  IF pd.tag = "Ok" /\ y < Len(pd.val) /\ x < Len(pd.val[y + 1])
        THEN pd.val[y + 1][x + 1]
        ELSE <<>>

\* the number of entries of the color table, when there is one
table_length_before ==
  LET ct == get_color_table(before)
  IN  IF ct.tag = "Ok" THEN Len(ct.val.vec) ELSE -1

\* C8: for bitcount in {1,2,4,8}, get_color_of_px on a pixel whose sample is
\* an index greater than or equal to the color table length returns an error
\* value (Malformed); it never wraps the index and never aborts.
C8_PaletteBounds ==
  (/\ op = "get_color_of_px"
   /\ depth_before({1, 2, 4, 8})
   /\ table_length_before >= 0
   /\ sample_before(args.x, args.y) # <<>>
   /\ sample_before(args.x, args.y)[1] >= table_length_before) =>
    result.tag = "Err"

\* C9: change_color_of_pixel on an image whose bitcount is not 24 or 32
\* returns the error Unsupported and leaves every byte of the buffer unchanged.
C9_UnsupportedDepth ==
  (/\ op = "change_color_of_pixel"
   /\ header_before.tag = "Ok"
   /\ header_before.val.bitcount \notin {24, 32}) =>
    /\ result = Err("Unsupported")
    /\ contents = before

\* a write to a 16-bit image was refused
C9_Witness ==
  /\ op = "change_color_of_pixel"
  /\ depth_before({16})
  /\ result = Err("Unsupported")
  /\ contents = before

\* the pixels of an image, and the color the program reads at each
pixels_of(h) == (0..(u32_to_int(h.width) - 1)) \X (0..(Abs(h.height) - 1))
colors_of(c, h) == [p \in pixels_of(h) |-> get_color_of_px(c, "release", p[1], p[2])]

adjacent(p, q) == Abs(p[1] - q[1]) + Abs(p[2] - q[2]) = 1

\* the pixels reachable from those of S through up/down/left/right steps
\* over pixels of the color of the seed
RECURSIVE region_from(_, _, _)
region_from(S, colors, color) ==
  LET T == S \cup {q \in DOMAIN colors :
                     colors[q] = color /\ \E p \in S : adjacent(p, q)}
  IN  IF T = S THEN S ELSE region_from(T, colors, color)

\* C10: for every image and every in-range seed, the visited list fill_bucket
\* returns is exactly the set of pixels reachable from the seed through
\* up/down/left/right steps over in-bounds pixels of the seed's color (row 0
\* and column 0 included), and contains no coordinate twice (stated for the
\* images every pixel of which reads).
C10_FillRegion ==
  (/\ fill_ended
   /\ header_before.tag = "Ok"
   /\ \A p \in pixels_of(header_before.val) :
        get_color_of_px(before, "release", p[1], p[2]).tag = "Ok") =>
    LET colors == colors_of(before, header_before.val)
        seed == <<args.x, args.y>>
    IN  /\ result.tag = "Ok"
        /\ coordinates(result.val) = region_from({seed}, colors, colors[seed])
        /\ ~has_duplicate(result.val)

\* C11: after fill_bucket(fill, x, y) returns successfully on a 24- or 32-bit
\* image of either row orientation, get_color_of_px at every coordinate of
\* the returned visited list equals the fill color.
C11_FillWritten ==
  (fill_ended /\ result.tag = "Ok" /\ depth_before({24, 32})) =>
    \A i \in 1..Len(result.val) :
      get_color_of_px(contents, args.build, result.val[i][1], result.val[i][2])
        = Ok(args.fill)

\* the pixels from p1 to p2 along the axis the two points share
between(p1, p2) ==
  {q \in (Min(p1[1], p2[1])..Max(p1[1], p2[1])) \X (Min(p1[2], p2[2])..Max(p1[2], p2[2])) :
     TRUE}

\* C12: draw_line with two distinct endpoints that share an x coordinate or
\* share a y coordinate writes the fill color to every pixel between the two
\* endpoints along the shared axis.
C12_AxisLine ==
  (/\ op = "draw_line"
   /\ depth_before({24, 32})
   /\ args.p1 # args.p2
   /\ (args.p1[1] = args.p2[1] \/ args.p1[2] = args.p2[2])) =>
    /\ result.tag = "Ok"
    /\ \A q \in between(args.p1, args.p2) :
         get_color_of_px(contents, args.build, q[1], q[2]) = Ok(args.fill)

\* C13: get_color_of_px called with a coordinate outside
\* [0,width) x [0,height) returns an error value (a bounds error) instead of
\* aborting or returning a color.
C13_BoundsError ==
  (/\ op = "get_color_of_px"
   /\ header_before.tag = "Ok"
   /\ ~in_range_before(args.x, args.y)) =>
    result.tag = "Err"

\* the table of the entries of n bytes stored from the end of the header to
\* the pixel array
stored_table(c, h, n) ==
  LET first == 14 + h.size
      count == (stored_offset(c) - first) \div n
  IN  [i \in 1..count |-> SubSeq(c, first + n * (i - 1) + 1, first + n * i)]

\* C14: for Info/V4/V5 headers get_color_table returns UseExtraBitMasks
\* exactly when compression is BITFIELDS and bitcount is 16 or 32, returns
\* DoesNotExist when compression is RGB and bitcount >= 16, and otherwise
\* returns a table of 4-byte entries; for a Core header it returns a table
\* of 3-byte entries.
C14_ColorTable ==
  (op = "get_color_table" /\ header_before.tag = "Ok") =>
    LET h == header_before.val
        table(kind, n) ==
          /\ result.tag = "Ok"
          /\ result.val.kind = kind
          /\ result.val.vec = stored_table(before, h, n)
    IN  IF Shape(h) = "Core" THEN table("RGBTRIPLE", 3)
        ELSE IF h.compression = Some("BI_BITFIELDS") /\ h.bitcount \in {16, 32}
          THEN result = Err("UseExtraBitMasks")
        ELSE IF h.compression = Some("BI_RGB") /\ h.bitcount >= 16
          THEN result = Err("DoesNotExist")
        ELSE table("RGBQUAD", 4)

\* a V4 header with RLE8 compression at 8 bits gave a table of 4-byte entries
C14_Witness ==
  /\ op = "get_color_table"
  /\ header_before.tag = "Ok"
  /\ Shape(header_before.val) = "V4"
  /\ header_before.val.compression = Some("BI_RLE8")
  /\ result.tag = "Ok"
  /\ result.val.kind = "RGBQUAD"
  /\ Len(result.val.vec) = 2

\* C15: for every well-formed image with any of the four header shapes and
\* any bitcount in {1,2,4,8,16,24,32}, get_color_of_px at every in-range
\* coordinate ends in a returned color or a returned error kind; it never
\* aborts.
C15_NoAbort ==
  (/\ op = "get_color_of_px"
   /\ header_before.tag = "Ok"
   /\ in_range_before(args.x, args.y)) =>
    result.tag \in {"Ok", "Err"}

\* C16: whenever fill_bucket returns an error (raised for the seed or for a
\* neighbor read during traversal), no pixel write has happened: the buffer
\* is byte-for-byte the same as before the call.  The traversal itself
\* writes nothing either.
C16_FillErrorAtomic ==
  (op = "fill_bucket" /\ (pc = "fill_loop" \/ result.tag = "Err")) =>
    contents = before

\* fill_bucket returned the header's error on an image of an unknown header
C16_Witness ==
  /\ op = "fill_bucket"
  /\ pc = "idle"
  /\ result = Err("Unsupported")
  /\ contents = before

\* C17: after any sequence of change_color_of_pixel, draw_line and
\* fill_bucket calls, the length of the byte buffer equals its length at
\* load: no mutation operation grows or shrinks the buffer.
C17_LengthKept == Len(contents) = Len(loaded)

\* a second call has changed bytes of the buffer again
C17_Witness ==
  /\ nops = 2
  /\ pc = "idle"
  /\ contents # before
  /\ before # loaded
  /\ Len(contents) = Len(loaded)

\* the byte (1..4) of the 4-byte sample a one-byte mask selects, 0 otherwise
mask_byte(m) ==
  CASE m = Some(<<0, 255>>)   -> 1
    [] m = Some(<<0, 65280>>) -> 2
    [] m = Some(<<255, 0>>)   -> 3
    [] m = Some(<<65280, 0>>) -> 4
    [] OTHER -> 0

\* a 32-bit bit-field image whose four header masks are a permutation of
\* 0xFF, 0xFF00, 0xFF0000, 0xFF000000 with alpha in the lowest or highest byte
masks_permuted_before ==
  /\ depth_before({32})
  /\ header_before.val.compression \in {Some("BI_BITFIELDS"), Some("BI_ALPHABITFIELDS")}
  /\ {mask_byte(header_before.val.RedMask), mask_byte(header_before.val.GreenMask),
      mask_byte(header_before.val.BlueMask), mask_byte(header_before.val.AlphaMask)}
       = 1..4
  /\ mask_byte(header_before.val.AlphaMask) \in {1, 4}

\* C18: for such an image get_color_of_px places each channel according to
\* the magnitude of that channel's own mask (a larger mask is a later byte of
\* the sample), so that the layouts RGBA, BGRA, ARGB and ABGR are all
\* produced; masks 0xFF, 0xFF00, 0xFF0000, 0xFF000000 with file bytes
\* [r,g,b,a] resolve to [r,g,b,a].
C18_MaskOrder ==
  (op = "get_color_of_px" /\ masks_permuted_before /\ in_range_before(args.x, args.y)) =>
    LET h == header_before.val
        bytes == stored_sample(before, h, stored_row_index(h, args.y), args.x)
    IN  result = Ok(<<bytes[mask_byte(h.RedMask)], bytes[mask_byte(h.GreenMask)],
                      bytes[mask_byte(h.BlueMask)], bytes[mask_byte(h.AlphaMask)]>>)

\* a 32-bit image that carries masks under bit-field compression, or a 40-byte
\* header with RGB compression and no masks
round_trip_32_before ==
  /\ depth_before({32})
  /\ \/ /\ header_before.val.compression \in {Some("BI_BITFIELDS"), Some("BI_ALPHABITFIELDS")}
        /\ header_before.val.RedMask # None
     \/ /\ Shape(header_before.val) = "Info"
        /\ header_before.val.compression = Some("BI_RGB")

\* C19: on a 32-bit image, for every in-range (x,y) and every RGBA value c,
\* change_color_of_pixel(x,y,c) succeeds and a following get_color_of_px(x,y)
\* returns c, with masks under bit-field compression and without masks
\* (40-byte header, RGB compression), where the bytes are written in
\* straight R,G,B,A order.
C19_RoundTrip32 ==
  (op = "change_color_of_pixel" /\ round_trip_32_before) =>
    /\ result.tag = "Ok"
    /\ \A build \in Builds :
         get_color_of_px(contents, build, args.x, args.y) = Ok(args.new_color)
    /\ header_before.val.RedMask = None =>
         stored_sample(contents, header_before.val,
                       stored_row_index(header_before.val, args.y), args.x)
           = args.new_color

\* bit-group g (from the most significant bit) of a byte, groups of n bits
bit_group(byte, n, g) == (byte \div (2 ^ (8 - n * (g + 1)))) % (2 ^ n)

\* the sample the format stores for pixel p of stored row k at n bits a pixel
stored_packed_sample(c, h, k, p) ==
  LET per == 8 \div h.bitcount
      byte == c[stored_offset(c) + k * stored_stride(h) + (p \div per) + 1]
  IN  <<bit_group(byte, h.bitcount, p % per)>>

\* C20: for bitcount in {1,2,4} the sample get_pixel_data produces for pixel
\* p of a row is bit-group (p mod (8/bitcount)), counted from the most
\* significant bit, of the row byte at index floor(p / (8/bitcount)); pixels
\* with p >= 8/bitcount are read from a byte after the row's first byte.
\* Which stored row a grid row comes from is left open here.
C20_PackedSamples ==
  (op = "get_pixel_data" /\ depth_before({1, 2, 4})) =>
    LET h == header_before.val
    IN  /\ result.tag = "Ok"
        /\ Len(result.val) = Abs(h.height)
        /\ \A y \in 1..Abs(h.height) :
             \E k \in 0..(Abs(h.height) - 1) :
               result.val[y] =
                 [x \in 1..u32_to_int(h.width) |->
                    stored_packed_sample(before, h, k, x - 1)]

\* C21: an image whose header height is exactly 0 is rejected:
\* get_pixel_data, get_color_of_px and change_color_of_pixel each return an
\* error value for it; none returns a grid, a color or a successful write.
C21_ZeroHeightRejected ==
  (/\ op \in {"get_pixel_data", "get_color_of_px", "change_color_of_pixel"}
   /\ header_before.tag = "Ok"
   /\ header_before.val.height = 0) =>
    result.tag = "Err"

\* the in-range coordinates whose resolved color differs between two buffers
resolved_differently(c1, c2, h, build) ==
  {xy \in (0..(u32_to_int(h.width) - 1)) \X (0..(Abs(h.height) - 1)) :
     get_color_of_px(c1, build, xy[1], xy[2]) # get_color_of_px(c2, build, xy[1], xy[2])}

\* C22: a successful change_color_of_pixel on an in-range coordinate of a
\* 24- or 32-bit image of any width changes the resolved color of at most
\* one pixel of the grid: get_color_of_px returns the same value before and
\* after the call for all but one coordinate.
C22_OnePixelChanged ==
  (/\ op = "change_color_of_pixel"
   /\ depth_before({24, 32})
   /\ in_range_before(args.x, args.y)
   /\ result.tag = "Ok") =>
    \A build \in Builds :
      Cardinality(resolved_differently(before, contents, header_before.val, build)) <= 1

\* the bytes below the pixel-data offset of the loaded file
bytes_below_offset(c) == SubSeq(c, 1, stored_offset(loaded))

\* C23: after any sequence of change_color_of_pixel, draw_line and
\* fill_bucket calls with in-range coordinates on a well-formed 24- or 32-bit
\* image, every byte at an offset below the pixel-data offset is unchanged,
\* so get_dib_header returns the same header as before the sequence.
C23_HeaderKept ==
  /\ bytes_below_offset(contents) = bytes_below_offset(loaded)
  /\ get_dib_header(contents) = get_dib_header(loaded)

\* C24: fill_bucket terminates for every image of finite size and every
\* in-range seed: each coordinate is added to the visited list at most once,
\* every dequeued coordinate enqueues at most four neighbors, and the queue
\* eventually becomes empty.
C24_FillTerminates ==
  /\ [](op = "fill_bucket" => ~has_duplicate(visited))
  /\ [][pc = "fill_loop" => Len(queue') <= Len(queue) - 1 + 4]_vars
  /\ (pc = "fill_loop") ~> (queue = <<>>)

\* the coordinates the call passed to change_color_of_pixel, in u16
passed_points ==
  LET pts == line_points(args.p1, args.p2)
      n == draw_line(before, args.build, args.fill, args.p1, args.p2).calls
  IN  {<<pts[i][1] % U16, pts[i][2] % U16>> : i \in 1..n}

\* C25: for endpoints p1 and p2 that share neither x nor y, every coordinate
\* draw_line passes to change_color_of_pixel lies inside the bounding box of
\* the endpoints: min(p1.x,p2.x) <= x <= max(p1.x,p2.x) and
\* min(p1.y,p2.y) <= y <= max(p1.y,p2.y).
C25_LineInBox ==
  (op = "draw_line" /\ args.p1[1] # args.p2[1] /\ args.p1[2] # args.p2[2]) =>
    \A q \in passed_points :
      /\ Min(args.p1[1], args.p2[1]) <= q[1] /\ q[1] <= Max(args.p1[1], args.p2[1])
      /\ Min(args.p1[2], args.p2[2]) <= q[2] /\ q[2] <= Max(args.p1[2], args.p2[2])

=============================================================================
